---- MODULE Spec2Model ----
(***************************************************************************)
(* cursor-sync: the sync daemon (internal/daemon), the syncer              *)
(* (internal/sync), the git transport (internal/git) and the file watcher  *)
(* (internal/watcher), modelled as a state machine.                        *)
(*                                                                         *)
(* One host runs the program against one remote; a second host is the      *)
(* environment that pushes to the same remote.  Paths and patterns are     *)
(* sequences of one-character strings so that the string functions of the  *)
(* path policy are computed, not assumed.                                  *)
(***************************************************************************)
EXTENDS Naturals, Sequences, FiniteSets, TLC

----------------------------------------------------------------------------
(* Bounds of the environment *)

\* number of changes the environment makes while the program runs: edits of
\* the user scope by the user and commits pushed by another host
MaxEnvOps == 1

----------------------------------------------------------------------------
(* Strings *)

HasPrefix(s, p) == Len(p) <= Len(s) /\ SubSeq(s, 1, Len(p)) = p

HasSuffix(s, p) == Len(p) <= Len(s) /\ SubSeq(s, Len(s) - Len(p) + 1, Len(s)) = p

Contains(s, p) == \E i \in 1..(Len(s) + 1) :
                     i + Len(p) - 1 <= Len(s) /\ SubSeq(s, i, i + Len(p) - 1) = p

\* strings.ReplaceAll(s, "**", "")
RECURSIVE RemoveStars(_)
RemoveStars(s) ==
  IF Len(s) < 2 THEN s
  ELSE IF s[1] = "*" /\ s[2] = "*" THEN RemoveStars(SubSeq(s, 3, Len(s)))
  ELSE <<s[1]>> \o RemoveStars(Tail(s))

\* filepath.Match for patterns made of literals, '*' and '?': m[i, j] says
\* that the pattern from position i matches the name from position j
Match(pattern, name) ==
  LET P == Len(pattern)
      N == Len(name)
      m[i \in 1..(P + 1), j \in 1..(N + 1)] ==
        IF i = P + 1 THEN j = N + 1
        ELSE IF pattern[i] = "*"
          THEN m[i + 1, j] \/ (j <= N /\ name[j] # "/" /\ m[i, j + 1])
        ELSE IF pattern[i] = "?"
          THEN j <= N /\ name[j] # "/" /\ m[i + 1, j + 1]
        ELSE j <= N /\ name[j] = pattern[i] /\ m[i + 1, j + 1]
  IN m[1, 1]

----------------------------------------------------------------------------
(* Configuration and the file universe *)

\* "User/", the prefix the syncer puts before a relative path
UserDir == <<"U", "s", "e", "r", "/">>

\* ".custom.sync"
MarkerName == <<".", "c", "u", "s", "t", "o", "m", ".", "s", "y", "n", "c">>

\* cfg.Cursor.ExcludePaths
ExcludePaths == << <<"U", "s", "e", "r", "/", "x">> >>

\* cfg.Sync.ConflictResolve
ConflictResolve == "newer"

\* relative paths below the user scope
PA == <<"a">>
PB == <<"b">>
PX == <<"x">>
Paths == {PA, PB, PX}

NoFile == "-"
\* file contents: "A" and "B" have the same size, "CC" is longer
Contents == {"A", "B", "CC"}
Size(c) == IF c = "CC" THEN 2 ELSE 1

\* sha256.Sum256 printed as hex: distinct contents have distinct digests
Hash(c) == <<"sha256", c>>
NoHash == <<>>

\* absolute paths, the keys of the hash cache
UserPath(p) == <<"user", p>>
RepoPath(p) == <<"repo", p>>
AbsPaths == {UserPath(p) : p \in Paths} \cup {RepoPath(p) : p \in Paths}

Trees == [Paths -> Contents \cup {NoFile}]
EmptyTree == [p \in Paths |-> NoFile]
HasFiles(tree) == \E p \in Paths : tree[p] # NoFile

----------------------------------------------------------------------------
(* Path policy *)

matchesRecursivePattern(path, pattern) ==
  LET cleanPattern == RemoveStars(pattern) IN
  IF HasSuffix(cleanPattern, <<"/">>)
    THEN Contains(path, cleanPattern)
    ELSE HasSuffix(path, cleanPattern) \/ Contains(path, cleanPattern \o <<"/">>)

\* the pattern loop of shouldExcludePath over the configured list
matchesExcludePattern(excludePaths, path) ==
  \E i \in 1..Len(excludePaths) :
    LET excludePattern == excludePaths[i] IN
    IF Contains(excludePattern, <<"*", "*">>)
      THEN matchesRecursivePattern(path, excludePattern)
      ELSE Match(excludePattern, path) \/ HasPrefix(path, excludePattern)

\* shouldExcludePath without its marker rule
shouldExcludePathByPatternsOnly(excludePaths, path) ==
  matchesExcludePattern(excludePaths, path)

\* shouldExcludePath of a syncer configured with excludePaths
shouldExcludePathOf(excludePaths, path) ==
  \/ HasSuffix(path, MarkerName)
  \/ matchesExcludePattern(excludePaths, path)

shouldExcludePath(path) == shouldExcludePathOf(ExcludePaths, path)

\* the paths and the patterns the path policy is asked about on its own:
\* the marker at the root, below User/ and deeper, names that contain the
\* marker name without ending in it, ordinary and excluded files
PolicyPaths == {<<".", "c", "u", "s", "t", "o", "m", ".", "s", "y", "n", "c">>,
                <<"U", "s", "e", "r", "/", ".", "c", "u", "s", "t", "o", "m", ".", "s", "y", "n", "c">>,
                <<"U", "s", "e", "r", "/", "a", "/", ".", "c", "u", "s", "t", "o", "m", ".", "s", "y", "n", "c">>,
                <<"U", "s", "e", "r", "/", "a", ".", "c", "u", "s", "t", "o", "m", ".", "s", "y", "n", "c">>,
                <<"U", "s", "e", "r", "/", ".", "c", "u", "s", "t", "o", "m", ".", "s", "y", "n", "c", "s">>,
                <<".", "c", "u", "s", "t", "o", "m", ".", "s", "y", "n", "c", "/", "a">>,
                <<"U", "s", "e", "r", "/", "a">>,
                <<"U", "s", "e", "r", "/", "x">>,
                <<"a">>,
                <<>>}

PolicyPatterns == {<<"U", "s", "e", "r", "/", "x">>,
                   <<"*">>,
                   <<"*", "*", "/", "a">>,
                   <<"*", "*", "/", "a", "/">>,
                   <<"U", "s", "e", "r", "/", "*", ".", "s", "y", "n", "c">>,
                   <<"?">>}

\* length of the exclude lists the path policy is asked about
MaxExcludes == 2

ExcludeLists == UNION {[1..n -> PolicyPatterns] : n \in 0..MaxExcludes}

NoClassification == [asked |-> FALSE]

\* shouldExcludePath("User/" + relPath) for the relative paths of the universe
Excluded == UNION {IF shouldExcludePath(UserDir \o p) THEN {p} ELSE {} : p \in Paths}
InScope == Paths \ Excluded
\* the walk of the user scope starts at the scope itself, relative path "."
RootExcluded == shouldExcludePath(UserDir \o <<".">>)
\* strings.HasSuffix(relPath, ".sock")
Sockets == {p \in Paths : HasSuffix(p, <<".", "s", "o", "c", "k">>)}

----------------------------------------------------------------------------
(* The state the syncer works on: the user scope and the marker under the   *)
(* IDE-config root, the working copy with its git state, the remote, and    *)
(* the syncer's hash cache.  S.did lists what the running operation has     *)
(* done so far, S.last what the last operation returned.                    *)

\* the verdicts of the privacy check
GateVerdicts == {"private", "public", "indeterminate"}

\* responses of the hosting provider's repository-metadata endpoint
GateResponses == {[status |-> 200, private |-> TRUE],
                  [status |-> 200, private |-> FALSE],
                  [status |-> 404, private |-> FALSE],
                  [status |-> 500, private |-> FALSE]}

\* what the environment decides during one syncer operation: the metadata
\* response, whether the git remote is reachable and whether the
\* branch-metadata request succeeds.  Nothing but the response is consulted
\* when the privacy check blocks, and the branch-metadata request shares the
\* network with git.
SyncInputs ==
  {in \in [resp : GateResponses, net : BOOLEAN, api : BOOLEAN] :
     /\ in.api => in.net
     /\ (in.resp.status \notin {200, 404} \/ (in.resp.status = 200 /\ ~in.resp.private))
          => (in.net /\ in.api)}
\* Initialize on a host without working copy asks for the metadata a second
\* time, in its SyncToRemote: resp2
InitInputs ==
  {in \in [resp : GateResponses, resp2 : GateResponses, net : BOOLEAN, api : BOOLEAN] :
     /\ [resp |-> in.resp, net |-> in.net, api |-> in.api] \in SyncInputs
     /\ in.resp2.status = 200
     /\ (~in.net \/ ~in.api) => in.resp2.private}

NoOp == [op |-> "none", gate |-> "none", err |-> FALSE, pullOK |-> FALSE,
         pushOK |-> FALSE]

Did(S, what) == [S EXCEPT !.did = @ \cup {what}]

DidIf(S, cond, what) == IF cond THEN Did(S, what) ELSE S

\* the caller has looked at what the operation returned
Forget(S) == [S EXCEPT !.did = {}, !.last = NoOp]

----------------------------------------------------------------------------
(* Content hasher *)

calculateSingleFileHash(content) == Hash(content)

\* a job is handed to a worker and its result is cached under the path
calculateFileHashParallel(cache, filePath, content) ==
  LET h == calculateSingleFileHash(content) IN
  [hash |-> h, cache |-> [cache EXCEPT ![filePath] = h]]

calculateFileHash(cache, filePath, content) ==
  IF cache[filePath] # NoHash
    THEN [hash |-> cache[filePath], cache |-> cache]
    ELSE calculateFileHashParallel(cache, filePath, content)

\* both branches end in calculateFileHash of a readable file
calculateFileHashWithPolling(cache, filePath, content) ==
  calculateFileHash(cache, filePath, content)

\* src and dest are the contents at srcPath and destPath, dest may be NoFile
shouldCopyFile(cache, srcPath, src, destPath, dest) ==
  IF dest = NoFile THEN [copy |-> TRUE, cache |-> cache]
  ELSE IF Size(src) # Size(dest) THEN [copy |-> TRUE, cache |-> cache]
  ELSE LET s == calculateFileHashWithPolling(cache, srcPath, src)
           d == calculateFileHashWithPolling(s.cache, destPath, dest)
       IN [copy |-> s.hash # d.hash, cache |-> d.cache]

----------------------------------------------------------------------------
(* Mirror copier and deletion propagator.  The walks decide each file on    *)
(* its own and touch only that file's cache entries, so the result of a     *)
(* walk is given per path.                                                  *)

\* the files S has at `paths` of the working copy are removed
RemoveFromRepo(S, paths) ==
  IF paths = {} THEN S
  ELSE Did([S EXCEPT !.repoFiles = [p \in Paths |-> IF p \in paths THEN NoFile ELSE @[p]]],
           "write_repo")

\* the files S has at `paths` of the user scope are removed
RemoveFromUser(S, paths) ==
  IF paths = {} THEN S
  ELSE Did([S EXCEPT !.userFiles = [p \in Paths |-> IF p \in paths THEN NoFile ELSE @[p]]],
           "write_user")

CleanupExcludedFiles(S) ==
  RemoveFromRepo(S, {p \in Excluded : S.repoFiles[p] # NoFile})

\* the files below `walked` that the walk of copyToRepository copies
copyToRepositoryCopied(S, walked) ==
  {p \in walked : shouldCopyFile(S.hashCache, UserPath(p), S.userFiles[p],
                                 RepoPath(p), S.repoFiles[p]).copy}

\* the walk of copyToRepository over the files `walked` of the user scope;
\* the cache entries of every file it compares are filled
copyToRepositoryWalk(S, walked, copied) ==
  DidIf([S EXCEPT
           !.repoUserDir = IF RootExcluded THEN @ ELSE TRUE,
           !.repoFiles = [p \in Paths |-> IF p \in copied THEN S.userFiles[p] ELSE @[p]],
           !.hashCache = [k \in AbsPaths |->
              IF k[2] \in walked
                THEN shouldCopyFile(S.hashCache, UserPath(k[2]), S.userFiles[k[2]],
                                    RepoPath(k[2]), S.repoFiles[k[2]]).cache[k]
                ELSE @[k]]],
        copied # {}, "write_repo")

copyToRepositoryOver(S, walked) ==
  copyToRepositoryWalk(S, walked, copyToRepositoryCopied(S, walked))

\* copyToRepository without its call of CleanupExcludedFiles
copyToRepositoryWithoutCleanup(S) ==
  copyToRepositoryOver(S,
                       IF RootExcluded THEN {}
                       ELSE {p \in InScope \ Sockets : S.userFiles[p] # NoFile})
copyToRepository(S) ==
  copyToRepositoryOver(CleanupExcludedFiles(S),
                       IF RootExcluded THEN {}
                       ELSE {p \in InScope \ Sockets : S.userFiles[p] # NoFile})

copyFromRepositoryForce(S) ==
  IF ~S.repoUserDir THEN S
  ELSE DidIf([S EXCEPT !.userFiles = [p \in Paths |->
                 IF S.repoFiles[p] # NoFile THEN S.repoFiles[p] ELSE @[p]]],
             HasFiles(S.repoFiles), "write_user")

\* the files of the working copy that the walk of copyFromRepository copies
copyFromRepositoryCopied(S) ==
  {p \in Paths : /\ S.repoFiles[p] # NoFile
                  /\ shouldCopyFile(S.hashCache, RepoPath(p), S.repoFiles[p],
                                    UserPath(p), S.userFiles[p]).copy}

copyFromRepositoryWalk(S, copied) ==
  DidIf([S EXCEPT
           !.userFiles = [p \in Paths |-> IF p \in copied THEN S.repoFiles[p] ELSE @[p]],
           !.hashCache = [k \in AbsPaths |->
              IF S.repoFiles[k[2]] # NoFile
                THEN shouldCopyFile(S.hashCache, RepoPath(k[2]), S.repoFiles[k[2]],
                                    UserPath(k[2]), S.userFiles[k[2]]).cache[k]
                ELSE @[k]]],
        copied # {}, "write_user")

copyFromRepository(S) ==
  IF ~S.repoUserDir THEN S
  ELSE copyFromRepositoryWalk(S, copyFromRepositoryCopied(S))

\* the deletion step of SyncToRemote run in the wrong direction
syncDeletedFilesInUserScope(S) ==
  RemoveFromUser(S, {p \in InScope : /\ S.repoUserDir
                                     /\ S.userFiles[p] # NoFile
                                     /\ S.repoFiles[p] = NoFile})
\* local-to-mirror
syncDeletedFiles(S) ==
  RemoveFromRepo(S, {p \in InScope : /\ S.repoUserDir
                                     /\ S.repoFiles[p] # NoFile
                                     /\ S.userFiles[p] = NoFile})

\* the mirror-to-local walk without its shouldExcludePath test
syncDeletedFilesFromRemoteUnfiltered(S) ==
  IF ~S.repoUserDir THEN S
  ELSE RemoveFromUser(S, {p \in Paths : /\ S.userFiles[p] # NoFile
                                        /\ S.repoFiles[p] = NoFile})
\* mirror-to-local
syncDeletedFilesFromRemote(S) ==
  IF ~S.repoUserDir THEN S
  ELSE RemoveFromUser(S, {p \in InScope : /\ S.userFiles[p] # NoFile
                                          /\ S.repoFiles[p] = NoFile})

hasCustomSyncMarker(S) == S.marker

\* a marker step that removes the file instead of writing it
removeCustomSyncMarker(S) == [S EXCEPT !.marker = FALSE]
createCustomSyncMarker(S) == [S EXCEPT !.marker = TRUE]

----------------------------------------------------------------------------
(* Git transport.  The local branch is described relative to the remote     *)
(* branch: headAhead, HEAD has a commit the remote lacks; headBehind, the   *)
(* remote has a commit HEAD lacks; headNewer, HEAD's author time is after   *)
(* the author time of the remote's head (the hosts' clocks agree).  An      *)
(* operation returns the new state and err: "" for success, or the class    *)
(* of the failure.                                                          *)

Ok(S) == [S |-> S, err |-> ""]
Fail(S, class) == [S |-> S, err |-> class]

\* a checkout from tree `from` to tree `to` rewrites the files that differ
\* and removes a directory it has emptied
CheckoutFiles(S, from, to) ==
  [p \in Paths |-> IF from[p] # to[p] THEN to[p] ELSE S.repoFiles[p]]

Checkout(S, from, to) ==
  [S EXCEPT !.repoFiles = CheckoutFiles(S, from, to),
            !.repoUserDir = IF HasFiles(CheckoutFiles(S, from, to)) THEN TRUE
                            ELSE IF HasFiles(S.repoFiles) THEN FALSE ELSE @]

Open(S) == [S EXCEPT !.repoOpen = TRUE]

\* git init, an initial commit, and the push that creates the remote branch
initializeEmptyRepository(S, net) ==
  IF ~net
    THEN Fail(Did([S EXCEPT !.gitDir = TRUE, !.repoOpen = TRUE, !.headFiles = EmptyTree,
                            !.headAhead = TRUE, !.headBehind = FALSE,
                            !.headNewer = FALSE], "commit"),
              "other")
    ELSE Ok(Did(Did([S EXCEPT !.gitDir = TRUE, !.repoOpen = TRUE,
                              !.headFiles = EmptyTree, !.headAhead = FALSE,
                              !.headBehind = FALSE, !.headNewer = FALSE,
                              !.remoteEmpty = FALSE, !.remoteFiles = EmptyTree],
                    "commit"), "push"))

\* what Clone finds after it has removed the existing directory
CloneInto(S, net) ==
  IF ~net THEN Fail(S, "other")
  ELSE IF S.remoteEmpty THEN initializeEmptyRepository(S, net)
  ELSE Ok([S EXCEPT !.gitDir = TRUE, !.repoOpen = TRUE,
                    !.repoFiles = S.remoteFiles, !.headFiles = S.remoteFiles,
                    !.repoUserDir = HasFiles(S.remoteFiles)])

Clone(S, net) ==
  CloneInto(Did([S EXCEPT !.gitDir = FALSE, !.repoOpen = FALSE, !.repoUserDir = FALSE,
                          !.repoFiles = EmptyTree, !.headFiles = EmptyTree,
                          !.headAhead = FALSE, !.headBehind = FALSE,
                          !.headNewer = FALSE], "clone"),
            net)

Pull(S, net) ==
  IF ~S.repoOpen THEN Fail(S, "other")
  ELSE IF ~net THEN Fail(Did(S, "pull"), "network")
  ELSE IF ~S.headBehind THEN Ok(Did(S, "pull"))
  ELSE IF S.headAhead THEN Fail(Did(S, "pull"), "conflict")
  ELSE Ok(Did([Checkout(S, S.headFiles, S.remoteFiles) EXCEPT
                 !.headFiles = S.remoteFiles, !.headBehind = FALSE], "pull"))

Push(S, net) ==
  IF ~S.repoOpen THEN Fail(S, "other")
  ELSE IF ~net THEN Fail(Did(S, "push"), "network")
  ELSE IF ~S.headAhead THEN Ok(Did(S, "push"))
  ELSE IF S.headBehind THEN Fail(Did(S, "push"), "conflict")
  ELSE Ok(Did(Did([S EXCEPT !.remoteFiles = S.headFiles, !.remoteEmpty = FALSE,
                            !.headAhead = FALSE, !.headNewer = FALSE],
                  "push"), "pushed"))

\* a status that is never clean
HasChangesAlways(S) == TRUE
HasChanges(S) == S.repoFiles # S.headFiles

\* Add(".") followed by Commit: the working tree becomes the new HEAD; the
\* author time is time.Now(), after the time of every commit on the remote
Commit(S) ==
  Did([S EXCEPT !.headFiles = S.repoFiles, !.headAhead = TRUE, !.headNewer = TRUE],
      "commit")

\* no pull of this program leaves unmerged entries behind, so there is
\* nothing to remove
resolveWithLocal(S) == Ok(S)

\* a forced pull: the remote branch overwrites the local one
resolveWithRemote(S, net) ==
  IF ~net THEN Fail(Did(S, "pull"), "other")
  ELSE IF ~S.headBehind THEN Ok(Did(S, "pull"))
  ELSE Ok(Did([Checkout(S, S.headFiles, S.remoteFiles) EXCEPT
                 !.headFiles = S.remoteFiles, !.headAhead = FALSE,
                 !.headBehind = FALSE, !.headNewer = FALSE], "pull"))

\* localTime: GetLastCommitTime succeeds; api: GetRemoteLastCommitTime succeeds
resolveByTimestampGiven(S, net, localTime, api) ==
  IF ~localTime THEN Fail(S, "other")
  ELSE IF ~api THEN Fail(S, "other")
  ELSE IF S.headNewer THEN resolveWithLocal(S)
  ELSE resolveWithRemote(S, net)

ResolveConflictsGiven(S, strategy, net, localTime, api) ==
  IF ~S.repoOpen THEN Fail(S, "other")
  ELSE IF strategy = "newer" THEN resolveByTimestampGiven(S, net, localTime, api)
  ELSE IF strategy = "local" THEN resolveWithLocal(S)
  ELSE IF strategy = "remote" THEN resolveWithRemote(S, net)
  ELSE Fail(S, "other")

\* the working copy of a syncer that Initialize has set up has a HEAD commit,
\* cloned or made by the bootstrap of an empty remote
resolveByTimestamp(S, net, api) == resolveByTimestampGiven(S, net, TRUE, api)

ResolveConflicts(S, strategy, net, api) ==
  ResolveConflictsGiven(S, strategy, net, TRUE, api)

NoResolve == [asked |-> FALSE]

NoCopy == [asked |-> FALSE]

\* retryCloneWithBackoff: the number of attempts and the delays in seconds
maxRetries == 5
baseDelay == 2
maxDelay == 10

\* the delay before the next attempt: the attempt times the base delay, capped
backoffDelay(attempt) ==
  IF attempt * baseDelay > maxDelay THEN maxDelay ELSE attempt * baseDelay

\* what git.PlainClone can answer: a clone, an error that says the remote is
\* empty, or another error
CloneAnswers == {"cloned", "empty", "failed"}

\* the goroutines that run a sync and ask for hashes, and the hash workers
Requesters == {"handler", "loop"}
numWorkers == 2
Workers == 1..numWorkers
\* the capacity of hashJobChan and of hashResultChan
HashChanCap == numWorkers * 2
\* the paths asked for
HashPaths == {UserPath(PA), UserPath(PB)}
\* jobs handed to the workers in one run
MaxHashJobs == 5

NoRequest == [phase |-> "idle", path |-> <<>>, hash |-> NoHash, err |-> FALSE]

\* the pool after startHashWorkers
NoPool == [jobs |-> <<>>, results |-> <<>>,
           holding |-> [w \in Workers |-> <<>>],
           req |-> [r \in Requesters |-> NoRequest],
           cache |-> [k \in HashPaths |-> NoHash],
           sent |-> 0]

\* no retryCloneWithBackoff is running
NoClone == [phase |-> "idle", attempt |-> 0, delay |-> 0, waited |-> 0,
            slept |-> <<>>, result |-> "none"]

----------------------------------------------------------------------------
(* Privacy gate *)

checkGitHubRepositoryPrivacy(resp) ==
  IF resp.status = 404 THEN "private"
  ELSE IF resp.status # 200 THEN "indeterminate"
  ELSE IF resp.private THEN "private" ELSE "public"

checkRepositoryPrivacy(resp) == checkGitHubRepositoryPrivacy(resp)

\* everything one privacy check depends on: whether the URL parses as a
\* GitHub URL, whether a token is stored and sent, whether the request gets a
\* response, its status and what its body says
GateStatuses == {200, 301, 401, 403, 404, 500}
GateRequests == [github : BOOLEAN, token : BOOLEAN, answered : BOOLEAN,
                 status : GateStatuses, body : {"private", "public", "malformed"}]

\* RepositoryChecker.CheckRepositoryPrivacy and Syncer.checkRepositoryPrivacy
\* on one request; the token is sent but takes no part in the decision
CheckRepositoryPrivacy(req) ==
  IF ~req.github THEN "indeterminate"
  ELSE IF ~req.answered THEN "indeterminate"
  ELSE IF req.status = 200 /\ req.body = "malformed" THEN "indeterminate"
  ELSE checkGitHubRepositoryPrivacy([status |-> req.status, private |-> req.body = "private"])

NoCheck == [verdict |-> "none"]

----------------------------------------------------------------------------
(* Syncer.  An operation starts with an empty S.did and ends by recording   *)
(* in S.last what it returned.  The steps of an operation are operators     *)
(* that take the result of the step before.                                 *)

Begin(S) == [S EXCEPT !.did = {}]

Return(S, name, verdict, failed, pullOK, pushOK) ==
  [S EXCEPT !.last = [op |-> name, gate |-> verdict, err |-> failed,
                      pullOK |-> pullOK, pushOK |-> pushOK]]

\* SyncToRemote from the second push on
SyncToRemoteRetried(push2) ==
  Return(createCustomSyncMarker(push2.S), "SyncToRemote", "private", FALSE, FALSE,
         push2.err = "")

\* SyncToRemote from the result of its first push on
SyncToRemotePushed(push1, in) ==
  IF push1.err = "conflict"
    THEN SyncToRemoteRetried(
           Push(ResolveConflicts(Pull(push1.S, in.net).S, ConflictResolve,
                                 in.net, in.api).S,
                in.net))
    ELSE Return(createCustomSyncMarker(push1.S), "SyncToRemote", "private", FALSE,
                FALSE, push1.err = "")

\* SyncToRemote from HasChanges on
SyncToRemoteCopied(S, in) ==
  IF ~S.repoOpen THEN Return(S, "SyncToRemote", "private", TRUE, FALSE, FALSE)
  ELSE IF ~HasChanges(S)
    THEN Return(IF ~hasCustomSyncMarker(S) THEN createCustomSyncMarker(S) ELSE S,
                "SyncToRemote", "private", FALSE, FALSE, FALSE)
  ELSE SyncToRemotePushed(Push(Commit(S), in.net), in)

\* syncToRemote with the privacy check moved behind the local mirror step
syncToRemoteChecksLate(S, resp, in) ==
  IF checkRepositoryPrivacy(resp) # "private"
    THEN Return(copyToRepository(syncDeletedFiles(S)), "SyncToRemote",
                checkRepositoryPrivacy(resp), TRUE, FALSE, FALSE)
    ELSE SyncToRemoteCopied(copyToRepository(syncDeletedFiles(S)), in)

\* SyncToRemote as Initialize and the callers of the syncer run it; resp is
\* the metadata response its privacy check gets
syncToRemote(S, resp, in) ==
  IF checkRepositoryPrivacy(resp) # "private"
    THEN Return(S, "SyncToRemote", checkRepositoryPrivacy(resp), TRUE, FALSE, FALSE)
    ELSE SyncToRemoteCopied(copyToRepository(syncDeletedFiles(S)), in)

SyncToRemote(S0, in) == syncToRemote(Begin(S0), in.resp, in)

\* SyncFromRemote from syncDeletedFilesFromRemote on
\* SyncFromRemote with the deletion step run whatever the pull returned
SyncFromRemoteAlwaysDeleting(S, pullSuccess) ==
  Return(createCustomSyncMarker(copyFromRepository(syncDeletedFilesFromRemote(S))),
         "SyncFromRemote", "private", FALSE, pullSuccess, FALSE)
\* SyncFromRemote from the outcome of its pulls on
SyncFromRemotePulled(S, pullSuccess) ==
  Return(createCustomSyncMarker(
           copyFromRepository(IF pullSuccess THEN syncDeletedFilesFromRemote(S) ELSE S)),
         "SyncFromRemote", "private", FALSE, pullSuccess, FALSE)

\* SyncFromRemote from the second pull on
SyncFromRemoteRetried(pull2) == SyncFromRemotePulled(pull2.S, pull2.err = "")

\* SyncFromRemote from the result of ResolveConflicts on
SyncFromRemoteResolved(res, in) ==
  IF res.err # "" THEN SyncFromRemotePulled(res.S, FALSE)
  ELSE SyncFromRemoteRetried(Pull(res.S, in.net))

\* SyncFromRemote from the result of its first pull on
SyncFromRemoteFirstPull(pull1, in) ==
  IF pull1.err = "" THEN SyncFromRemotePulled(pull1.S, TRUE)
  ELSE SyncFromRemoteResolved(
         ResolveConflicts(pull1.S, ConflictResolve, in.net, in.api), in)

SyncFromRemote(S0, in) ==
  IF checkRepositoryPrivacy(in.resp) # "private"
    THEN Return(Begin(S0), "SyncFromRemote", checkRepositoryPrivacy(in.resp), TRUE,
                FALSE, FALSE)
    ELSE SyncFromRemoteFirstPull(Pull(Begin(S0), in.net), in)

\* the initial sync of a host without marker
syncFromRemote(S) == copyFromRepositoryForce(S)

\* Initialize after its SyncToRemote has returned
InitializeSynced(S) ==
  IF S.last.err THEN Return(S, "Initialize", "private", TRUE, FALSE, S.last.pushOK)
  ELSE Return(createCustomSyncMarker(S), "Initialize", "private", FALSE, FALSE,
              S.last.pushOK)

\* Initialize after Clone has returned
InitializeCloned(cl, in) ==
  IF cl.err # "" THEN Return(cl.S, "Initialize", "private", TRUE, FALSE, FALSE)
  ELSE InitializeSynced(syncToRemote(cl.S, in.resp2, in))

\* Initialize with an existing working copy, after Open
InitializeOpened(S) ==
  IF ~hasCustomSyncMarker(S)
    THEN Return(createCustomSyncMarker(syncFromRemote(S)), "Initialize", "private",
                FALSE, FALSE, FALSE)
    ELSE Return(S, "Initialize", "private", FALSE, FALSE, FALSE)

\* Initialize after its privacy check has passed
InitializeChecked(S, in) ==
  IF S.gitDir THEN InitializeOpened(Open(S))
  ELSE InitializeCloned(Clone(S, in.net), in)

Initialize(S0, in) ==
  IF checkRepositoryPrivacy(in.resp) # "private"
    THEN Return(Begin(S0), "Initialize", checkRepositoryPrivacy(in.resp), TRUE,
                FALSE, FALSE)
    ELSE InitializeChecked(Begin(S0), in)

----------------------------------------------------------------------------
(* Daemon, watcher and environment.  Time advances in ticks of 10 s.        *)

\* minInterval of canStartSync, 30 s
MinSyncTicks == 3
\* cfg.Sync.DebounceTime, 10 s
DebounceTicks == 1
\* capacity of the watcher's change channel
ChangeChanCap == 100

Goroutines == {"main", "handler", "loop"}

VARIABLES
  st,              \* disks, remote and syncer state (see above)
  pc,              \* where each goroutine of the daemon is
  syncInProgress,  \* Daemon.syncInProgress
  sinceLastSync,   \* time.Since(Daemon.lastSyncTime) in ticks, saturated at MinSyncTicks
  paused,          \* the pause sentinel file exists
  disabled,        \* Watcher.disabled
  watching,        \* the watcher has registered its watches
  fsEvents,        \* filesystem events not yet read by processEvents: the name of
                   \* the file, and whether the watcher was disabled at the change
  lastChangeMap,   \* paths whose last accepted event is less than DebounceTicks old
  changes,         \* number of FileChanges in the change channel
  pendingChanges,  \* handleFileChanges' pendingChanges
  timer,           \* handleFileChanges' debounceTimer: "stopped", "running" or "fired"
  envOps,          \* changes the environment has made
  envLast,         \* the last of them
  reliable,        \* in this run the network and the hosting provider never fail
  disk0,           \* what the process found when it started
  gateCheck,       \* the last privacy check made on its own: request and verdict
  policyCheck,     \* the last path classified on its own: path, exclude list, answer
  resolveCheck,    \* the last ResolveConflicts made on its own: inputs and result
  cloneCheck,      \* a run of retryCloneWithBackoff on its own: the attempt, what
                   \* it is doing, the delay chosen, the seconds slept of it, the
                   \* delays slept so far and what it returned
  hashPool,        \* the hash workers on their own: the job and result channels,
                   \* what each worker holds, where each requester is and what
                   \* it got, and the cache filled through the pool
  copyCheck,       \* the last run of the mirror copier or of the deletion
                   \* propagator on its own: mode, trees before and after, or
                   \* the entries walked and what the walk returned
  stamps           \* Syncer.lastSync and the readings of time.Now() that goroutines
                   \* hold for it and have not yet stored, in the order of the clock

vars == <<st, pc, syncInProgress, sinceLastSync, paused, disabled, watching, fsEvents,
          lastChangeMap, changes, pendingChanges, timer, envOps, envLast, reliable,
          disk0, gateCheck, policyCheck, resolveCheck, copyCheck, cloneCheck,
          hashPool,
          stamps>>

envVars == <<envOps, envLast>>
runVars == <<reliable, disk0>>
checkVars == <<gateCheck, policyCheck, resolveCheck, copyCheck, cloneCheck, hashPool>>

daemonVars == <<pc, syncInProgress, sinceLastSync, paused, disabled, watching,
                lastChangeMap, changes, pendingChanges, timer>>

\* the disks a process can find when it starts
InitUserTrees == {[EmptyTree EXCEPT ![PA] = "A"],
                  [EmptyTree EXCEPT ![PA] = "B", ![PB] = "A"]}
InitRemoteTree == [EmptyTree EXCEPT ![PA] = "A"]

\* what the user does: a change of PA that keeps its size, one that does not,
\* the creation of PB and of the excluded PX, the deletion of PA
UserWrites == {<<PA, "A">>, <<PA, "B">>, <<PA, "CC">>, <<PB, "A">>, <<PX, "A">>}
UserDeletes == {PA}
\* what the other host's commits do: every change of PA, the creation of PB
RemoteWrites == {<<PA, "B">>, <<PA, "CC">>, <<PA, NoFile>>, <<PB, "B">>}

\* u: the user scope; m: the marker exists; g: a working copy exists, cloned
\* from the remote; e: the remote has no commit yet.  A host that has the
\* marker has a working copy.
DiskAtStart(u, m, g, e) ==
  [userFiles |-> u, marker |-> m, gitDir |-> g, repoOpen |-> FALSE,
   repoUserDir |-> g, repoFiles |-> IF g THEN InitRemoteTree ELSE EmptyTree,
   headFiles |-> IF g THEN InitRemoteTree ELSE EmptyTree,
   headAhead |-> FALSE, headBehind |-> FALSE, headNewer |-> FALSE,
   remoteEmpty |-> e, remoteFiles |-> IF e THEN EmptyTree ELSE InitRemoteTree,
   hashCache |-> [k \in AbsPaths |-> NoHash], did |-> {}, last |-> NoOp]

InitSt == {DiskAtStart(c[1], c[2], c[3], c[4]) :
             c \in {x \in InitUserTrees \X BOOLEAN \X BOOLEAN \X BOOLEAN :
                     ~(x[3] /\ x[4]) /\ (x[2] => x[3])}}

\* a change of the environment: who made it, the file, its new content,
\* whether the remote had the file at that time, where Start was and whether
\* the watcher was watching
NoChange == [who |-> "none", path |-> <<>>, content |-> NoFile, onRemote |-> FALSE,
             main |-> "init", watched |-> FALSE]

\* where Start is: before Initialize, in its startup, past it, or returned
StartPhase ==
  IF pc["main"] \in {"init", "wait", "ready", "exit"} THEN pc["main"] ELSE "startup"

\* the state after daemon.New, before Start
InitFrom(pauseFile) ==
  /\ st \in InitSt
  /\ pc = [g \in Goroutines |-> IF g = "main" THEN "init" ELSE "off"]
  /\ syncInProgress = FALSE
  /\ sinceLastSync = MinSyncTicks
  /\ paused \in pauseFile
  /\ disabled = FALSE
  /\ watching = FALSE
  /\ fsEvents = <<>>
  /\ lastChangeMap = {}
  /\ changes = 0
  /\ pendingChanges = FALSE
  /\ timer = "stopped"
  /\ envOps = 0
  /\ envLast = NoChange
  /\ reliable \in BOOLEAN
  /\ disk0 = st
  /\ gateCheck = NoCheck
  /\ policyCheck = NoClassification
  /\ resolveCheck = NoResolve
  /\ copyCheck = NoCopy
  /\ cloneCheck = NoClone
  /\ hashPool = NoPool
  /\ stamps = <<"lastSync">>

Init == InitFrom(BOOLEAN)

----------------------------------------------------------------------------
(* Environment: the user (or the IDE) edits the user scope, another host    *)
(* pushes to the remote, time passes.                                       *)

Edit(p, c) ==
  /\ envOps < MaxEnvOps
  /\ st.userFiles[p] # c
  /\ envOps' = envOps + 1
  /\ envLast' = [who |-> "user", path |-> p, content |-> c,
                 onRemote |-> st.remoteFiles[p] # NoFile, main |-> StartPhase,
                 watched |-> watching]
  /\ st' = [Forget(st) EXCEPT !.userFiles[p] = c]
  /\ fsEvents' = IF watching
                  THEN Append(fsEvents, [name |-> p, whileDisabled |-> disabled])
                  ELSE fsEvents
  /\ UNCHANGED <<daemonVars, runVars, checkVars, stamps>>

UserWrite == \E w \in UserWrites : Edit(w[1], w[2])

UserDelete == \E p \in UserDeletes : Edit(p, NoFile)

\* another host, with the same configuration, pushes a commit that writes or
\* deletes one in-scope file; the commit may have been made before or after
\* an unpushed commit of this host
RemotePush ==
  \E w \in RemoteWrites, localNewer \in BOOLEAN : LET p == w[1] c == w[2] IN
    /\ envOps < MaxEnvOps
    /\ ~st.remoteEmpty
    /\ st.remoteFiles[p] # c
    /\ localNewer => st.headAhead
    /\ envOps' = envOps + 1
    /\ envLast' = [who |-> "remote", path |-> p, content |-> c,
                   onRemote |-> st.remoteFiles[p] # NoFile, main |-> StartPhase,
                 watched |-> watching]
    /\ st' = [Forget(st) EXCEPT !.remoteFiles[p] = c, !.headBehind = TRUE,
                                 !.headNewer = localNewer]
    /\ UNCHANGED <<daemonVars, fsEvents, runVars, checkVars, stamps>>

Tick ==
  /\ pc["main"] \notin {"init", "exit"}
  /\ \/ sinceLastSync < MinSyncTicks
     \/ timer = "running"
     \/ lastChangeMap # {}
  /\ sinceLastSync' = IF sinceLastSync < MinSyncTicks THEN sinceLastSync + 1 ELSE sinceLastSync
  /\ timer' = IF timer = "running" THEN "fired" ELSE timer
  /\ lastChangeMap' = {}
  /\ UNCHANGED <<st, pc, syncInProgress, paused, disabled, watching, fsEvents, changes,
                 pendingChanges, envVars, runVars, checkVars, stamps>>

----------------------------------------------------------------------------
(* Watcher *)

\* Watcher.Start: addWatchPaths, then processEvents runs
WatcherStart ==
  /\ pc["handler"] \notin {"off", "killed"}
  /\ ~watching
  /\ watching' = TRUE
  /\ UNCHANGED <<st, pc, syncInProgress, sinceLastSync, paused, disabled, fsEvents,
                 lastChangeMap, changes, pendingChanges, timer, envVars, runVars, checkVars, stamps>>

TrimUserPrefix(pattern) ==
  IF HasPrefix(pattern, UserDir) THEN SubSeq(pattern, Len(UserDir) + 1, Len(pattern))
  ELSE pattern

\* Watcher.shouldExcludePath, on the path relative to the user scope
watcherShouldExcludePath(relativePath) ==
  \E i \in 1..Len(ExcludePaths) :
    LET pattern == TrimUserPrefix(ExcludePaths[i]) IN
    Match(pattern, relativePath) \/ Contains(relativePath, pattern)

shouldProcessEvent(p) ==
  /\ ~disabled
  /\ ~watcherShouldExcludePath(p)
  /\ p \notin lastChangeMap

\* one iteration of processEvents: shouldProcessEvent, then handleEvent
processEvents ==
  /\ watching
  /\ fsEvents # <<>>
  /\ fsEvents' = Tail(fsEvents)
  /\ LET p == Head(fsEvents).name IN
     IF shouldProcessEvent(p)
       THEN /\ lastChangeMap' = lastChangeMap \cup {p}
            /\ changes' = IF changes < ChangeChanCap THEN changes + 1 ELSE changes
       ELSE UNCHANGED <<lastChangeMap, changes>>
  /\ UNCHANGED <<st, pc, syncInProgress, sinceLastSync, paused, disabled, watching,
                 pendingChanges, timer, envVars, runVars, checkVars, stamps>>

----------------------------------------------------------------------------
(* Daemon *)

isPaused == paused

\* the inputs an operation can meet in this run
Succeeding(in) ==
  checkRepositoryPrivacy(in.resp) = "private" /\ in.net /\ in.api
SyncInputsOfRun ==
  IF reliable THEN {in \in SyncInputs : Succeeding(in)} ELSE SyncInputs
InitInputsOfRun ==
  IF reliable
    THEN {in \in InitInputs : Succeeding(in) /\ checkRepositoryPrivacy(in.resp2) = "private"}
    ELSE InitInputs

\* the operation that returned S went through its s.lastSync = time.Now()
SetsLastSync(S) ==
  /\ ~S.last.err
  /\ \/ S.last.op = "SyncFromRemote"
     \/ S.last.op = "SyncToRemote" /\ "commit" \in S.did

\* g has read the clock for s.lastSync and not yet stored the reading
HoldsStamp(g) == \E i \in 1..Len(stamps) : stamps[i] = g

PosOf(seq, x) == CHOOSE i \in 1..Len(seq) : seq[i] = x

\* s.lastSync becomes the reading g holds; the value it had is gone
StoreStamp(seq, g) ==
  LET kept == SelectSeq(seq, LAMBDA x : x # "lastSync")
  IN [i \in 1..Len(kept) |-> IF kept[i] = g THEN "lastSync" ELSE kept[i]]

canStartSync == ~syncInProgress /\ ~(sinceLastSync < MinSyncTicks)

\* Start up to the launch of the watcher and of handleFileChanges; a failed
\* Initialize makes Start return the error and the process exit
Start ==
  /\ pc["main"] = "init"
  /\ \E in \in InitInputsOfRun :
       /\ st' = Initialize(st, in)
       /\ pc' = IF st'.last.err THEN [pc EXCEPT !["main"] = "exit"]
                ELSE [pc EXCEPT !["main"] = "initial", !["handler"] = "select"]
  /\ UNCHANGED <<syncInProgress, sinceLastSync, paused, disabled, watching, fsEvents,
                 lastChangeMap, changes, pendingChanges, timer, envVars, runVars, checkVars, stamps>>

\* performInitialSync up to startSync; when paused it returns at once and
\* Start launches syncLoop
performInitialSync ==
  /\ pc["main"] = "initial"
  /\ IF isPaused
       THEN /\ pc' = [pc EXCEPT !["main"] = "wait", !["loop"] = "select"]
            /\ UNCHANGED <<syncInProgress, sinceLastSync>>
       ELSE /\ pc' = [pc EXCEPT !["main"] = "disable"]
            /\ syncInProgress' = TRUE
            /\ sinceLastSync' = 0
  /\ st' = Forget(st)
  /\ UNCHANGED <<paused, disabled, watching, fsEvents, lastChangeMap, changes,
                 pendingChanges, timer, envVars, runVars, checkVars, stamps>>

\* syncLoop, case periodicTicker.C; a rejected tick changes nothing
syncLoop ==
  /\ pc["loop"] = "select"
  /\ ~isPaused /\ canStartSync
  /\ pc' = [pc EXCEPT !["loop"] = "start"]
  /\ UNCHANGED <<st, syncInProgress, sinceLastSync, paused, disabled, watching, fsEvents,
                 lastChangeMap, changes, pendingChanges, timer, envVars, runVars, checkVars, stamps>>

\* handleFileChanges, case fileChange := <-changes
handleFileChange ==
  /\ pc["handler"] = "select"
  /\ changes > 0
  /\ changes' = changes - 1
  /\ IF ~isPaused
       THEN pendingChanges' = TRUE /\ timer' = "running"
       ELSE UNCHANGED <<pendingChanges, timer>>
  /\ UNCHANGED <<st, pc, syncInProgress, sinceLastSync, paused, disabled, watching,
                 fsEvents, lastChangeMap, envVars, runVars, checkVars, stamps>>

\* handleFileChanges, case <-debounceTimer.C
handleDebounce ==
  /\ pc["handler"] = "select"
  /\ timer = "fired"
  /\ timer' = "stopped"
  /\ pc' = IF pendingChanges /\ ~isPaused /\ canStartSync
             THEN [pc EXCEPT !["handler"] = "start"]
             ELSE pc
  /\ UNCHANGED <<st, syncInProgress, sinceLastSync, paused, disabled, watching, fsEvents,
                 lastChangeMap, changes, pendingChanges, envVars, runVars, checkVars, stamps>>

\* performRealtimeSync and performPeriodicSync begin with startSync
startSync(g) ==
  /\ g \in {"handler", "loop"}
  /\ pc[g] = "start"
  /\ syncInProgress' = TRUE
  /\ sinceLastSync' = 0
  /\ pc' = [pc EXCEPT ![g] = "disable"]
  /\ UNCHANGED <<st, paused, disabled, watching, fsEvents, lastChangeMap, changes,
                 pendingChanges, timer, envVars, runVars, checkVars, stamps>>

\* d.watcher.Disable(); the realtime sync goes on to push only
Disable(g) ==
  /\ pc[g] = "disable"
  /\ disabled' = TRUE
  /\ pc' = [pc EXCEPT ![g] = IF g = "handler" THEN "push" ELSE "pull"]
  /\ UNCHANGED <<st, syncInProgress, sinceLastSync, paused, watching, fsEvents,
                 lastChangeMap, changes, pendingChanges, timer, envVars, runVars, checkVars, stamps>>

\* d.syncer.SyncFromRemote() of the initial and of the periodic sync
pullStep(g) ==
  /\ pc[g] = "pull"
  /\ \E in \in SyncInputsOfRun : st' = SyncFromRemote(st, in)
  /\ stamps' = IF SetsLastSync(st') THEN Append(stamps, g) ELSE stamps
  /\ pc' = [pc EXCEPT ![g] = "push"]
  /\ UNCHANGED <<syncInProgress, sinceLastSync, paused, disabled, watching, fsEvents,
                 lastChangeMap, changes, pendingChanges, timer, envVars, runVars, checkVars>>

\* d.syncer.SyncToRemote() of every sync
pushStep(g) ==
  /\ pc[g] = "push"
  /\ ~HoldsStamp(g)
  /\ \E in \in SyncInputsOfRun : st' = SyncToRemote(st, in)
  /\ stamps' = IF SetsLastSync(st') THEN Append(stamps, g) ELSE stamps
  /\ pc' = [pc EXCEPT ![g] = "enable"]
  /\ UNCHANGED <<syncInProgress, sinceLastSync, paused, disabled, watching, fsEvents,
                 lastChangeMap, changes, pendingChanges, timer, envVars, runVars, checkVars>>

\* the assignment of s.lastSync = time.Now() in SyncFromRemote and SyncToRemote:
\* the goroutine has read the clock at the end of the step before and stores
\* the reading here, with no lock held; the marker write that follows the
\* assignment in the code does not depend on it and is in the step before
storeLastSync(g) ==
  /\ HoldsStamp(g)
  /\ stamps' = StoreStamp(stamps, g)
  /\ UNCHANGED <<st, daemonVars, fsEvents, envVars, runVars, checkVars>>

\* deferred d.watcher.Enable()
Enable(g) ==
  /\ pc[g] = "enable"
  /\ ~HoldsStamp(g)
  /\ disabled' = FALSE
  /\ pc' = [pc EXCEPT ![g] = "end"]
  /\ st' = Forget(st)
  /\ UNCHANGED <<syncInProgress, sinceLastSync, paused, watching, fsEvents,
                 lastChangeMap, changes, pendingChanges, timer, envVars, runVars, checkVars, stamps>>

\* deferred endSync and the return to the caller: Start launches syncLoop,
\* handleFileChanges clears pendingChanges, syncLoop waits for the next tick
endSync(g) ==
  /\ pc[g] = "end"
  /\ syncInProgress' = FALSE
  /\ pc' = IF g = "main" THEN [pc EXCEPT !["main"] = "wait", !["loop"] = "select"]
           ELSE [pc EXCEPT ![g] = "select"]
  /\ pendingChanges' = IF g = "handler" THEN FALSE ELSE pendingChanges
  /\ UNCHANGED <<st, sinceLastSync, paused, disabled, watching, fsEvents, lastChangeMap,
                 changes, timer, envVars, runVars, checkVars, stamps>>

\* the cancellation signal: Start returns from <-ctx.Done() and daemonCmd
\* returns, which ends the process; a goroutine that was between startSync
\* and endSync is killed there, the others just end; the memory of the
\* process is gone, the disks and the remote stay
Shutdown ==
  /\ pc["main"] = "wait"
  /\ pc' = [g \in Goroutines |->
             IF g = "main" THEN "exit"
             ELSE IF pc[g] \in {"disable", "pull", "push", "enable", "end"} THEN "killed"
             ELSE "off"]
  /\ st' = [Forget(st) EXCEPT !.repoOpen = FALSE,
                               !.hashCache = [k \in AbsPaths |-> NoHash]]
  /\ syncInProgress' = FALSE
  /\ sinceLastSync' = MinSyncTicks
  /\ disabled' = FALSE
  /\ watching' = FALSE
  /\ fsEvents' = <<>>
  /\ lastChangeMap' = {}
  /\ changes' = 0
  /\ pendingChanges' = FALSE
  /\ timer' = "stopped"
  /\ stamps' = <<"lastSync">>
  /\ UNCHANGED <<paused, envVars, runVars, checkVars>>

Next ==
  \/ UserWrite
  \/ UserDelete
  \/ RemotePush
  \/ Tick
  \/ WatcherStart
  \/ processEvents
  \/ Start
  \/ performInitialSync
  \/ syncLoop
  \/ handleFileChange
  \/ handleDebounce
  \/ \E g \in Goroutines : startSync(g)
  \/ \E g \in Goroutines : Disable(g)
  \/ \E g \in Goroutines : pullStep(g)
  \/ \E g \in Goroutines : pushStep(g)
  \/ \E g \in Goroutines : storeLastSync(g)
  \/ \E g \in Goroutines : Enable(g)
  \/ \E g \in Goroutines : endSync(g)
  \/ Shutdown

Spec == Init /\ [][Next]_vars

----------------------------------------------------------------------------
(* The syncer driven directly, as the commands of internal/cmd and the      *)
(* daemon's syncs drive it: one process calls Initialize and then           *)
(* SyncFromRemote and SyncToRemote in any order.                            *)

callInitialize ==
  /\ pc["main"] = "init"
  /\ \E in \in InitInputsOfRun :
       /\ st' = Initialize(st, in)
       /\ pc' = [pc EXCEPT !["main"] = IF st'.last.err THEN "exit" ELSE "ready"]
  /\ UNCHANGED <<syncInProgress, sinceLastSync, paused, disabled, watching, fsEvents,
                 lastChangeMap, changes, pendingChanges, timer, envVars, runVars, checkVars, stamps>>

callSyncFromRemote ==
  /\ pc["main"] = "ready"
  /\ \E in \in SyncInputsOfRun : st' = SyncFromRemote(st, in)
  /\ UNCHANGED <<daemonVars, fsEvents, envVars, runVars, checkVars, stamps>>

callSyncToRemote ==
  /\ pc["main"] = "ready"
  /\ \E in \in SyncInputsOfRun : st' = SyncToRemote(st, in)
  /\ UNCHANGED <<daemonVars, fsEvents, envVars, runVars, checkVars, stamps>>

SyncerNext ==
  \/ UserWrite
  \/ UserDelete
  \/ RemotePush
  \/ callInitialize
  \/ callSyncFromRemote
  \/ callSyncToRemote

SyncerInit == InitFrom({FALSE})

SyncerSpec == SyncerInit /\ [][SyncerNext]_vars

\* r.ResolveConflicts(cfg.Sync.ConflictResolve) on the working copy as the
\* syncer has left it, on its own: what it returns is recorded, the working
\* copy is left as it is and the syncer is not run any further
callResolveConflicts ==
  /\ pc["main"] = "ready"
  /\ st.repoOpen
  /\ \E net \in BOOLEAN, localTime \in BOOLEAN, api \in BOOLEAN :
       resolveCheck' = [asked |-> TRUE, net |-> net, localTime |-> localTime,
                        api |-> api,
                        res |-> ResolveConflictsGiven(st, ConflictResolve, net,
                                                      localTime, api)]
  /\ UNCHANGED <<st, daemonVars, fsEvents, envVars, runVars, gateCheck, policyCheck,
                 copyCheck, cloneCheck, hashPool, stamps>>

ResolveNext ==
  \/ resolveCheck = NoResolve /\ SyncerNext
  \/ callResolveConflicts

ResolveSpec == SyncerInit /\ [][ResolveNext]_vars

----------------------------------------------------------------------------
(* The mirror copier on its own: one run of one of its three walks over a   *)
(* user scope and a working copy.  A working copy can hold a file that this *)
(* host excludes: the remote is shared with hosts that have other exclude   *)
(* lists.                                                                   *)

\* the trees the copier is run on
CopierTrees == [Paths -> {"A", "B", NoFile}]

CopierModes == {"copyToRepository", "copyFromRepository", "copyFromRepositoryForce"}

\* a host with marker and working copy, its syncer just made
CopierDisk(user, repo) ==
  [DiskAtStart(user, TRUE, TRUE, FALSE) EXCEPT
     !.repoOpen = TRUE, !.repoFiles = repo, !.headFiles = repo,
     !.repoUserDir = HasFiles(repo)]

runCopier ==
  /\ ~copyCheck.asked
  /\ \E user \in CopierTrees, repo \in CopierTrees, mode \in CopierModes :
       LET S == CopierDisk(user, repo)
           T == IF mode = "copyToRepository" THEN copyToRepository(S)
                ELSE IF mode = "copyFromRepository" THEN copyFromRepository(S)
                ELSE copyFromRepositoryForce(S)
       IN copyCheck' = [asked |-> TRUE, mode |-> mode,
                        userBefore |-> S.userFiles, repoBefore |-> S.repoFiles,
                        userAfter |-> T.userFiles, repoAfter |-> T.repoFiles]
  /\ UNCHANGED <<st, daemonVars, fsEvents, envVars, runVars, gateCheck, policyCheck,
                 resolveCheck, cloneCheck, hashPool, stamps>>

CopierNext == runCopier

CopierInit == InitFrom({FALSE})

CopierSpec == CopierInit /\ [][CopierNext]_vars

----------------------------------------------------------------------------
(* The deletion propagator on its own: one run of one of its two walks.     *)

DeleterModes == {"syncDeletedFiles", "syncDeletedFilesFromRemote"}

runDeleter ==
  /\ ~copyCheck.asked
  /\ \E user \in CopierTrees, repo \in CopierTrees, mode \in DeleterModes :
       LET S == CopierDisk(user, repo)
           T == IF mode = "syncDeletedFiles" THEN syncDeletedFiles(S)
                ELSE syncDeletedFilesFromRemote(S)
       IN copyCheck' = [asked |-> TRUE, mode |-> mode,
                        userBefore |-> S.userFiles, repoBefore |-> S.repoFiles,
                        markerBefore |-> S.marker,
                        userAfter |-> T.userFiles, repoAfter |-> T.repoFiles,
                        markerAfter |-> T.marker]
  /\ UNCHANGED <<st, daemonVars, fsEvents, envVars, runVars, gateCheck, policyCheck,
                 resolveCheck, cloneCheck, hashPool, stamps>>

DeleterNext == runDeleter

DeleterInit == InitFrom({FALSE})

DeleterSpec == DeleterInit /\ [][DeleterNext]_vars

----------------------------------------------------------------------------
(* The walks of the syncer with their path arithmetic, on one file system   *)
(* that holds the IDE-config root and the working copy: which path a walk   *)
(* starts at, and which path it writes or removes.                          *)

\* files below cfg.Cursor.ConfigPath: in the user scope, beside it, the marker
FramePaths == {UserDir \o PA, UserDir \o PX, PA, PB, MarkerName}
\* files below cfg.Repository.LocalPath: in its User directory and beside it
FrameRepoPaths == {UserDir \o PA, UserDir \o PX, PA}

FsPaths == ({"cursorPath"} \X FramePaths) \cup ({"repoPath"} \X FrameRepoPaths)

\* the files of the IDE-config root have content "A", those of the working
\* copy content "B", the marker is written with content "CC"
FrameDisks == {fs \in [FsPaths -> {"A", "B", NoFile}] :
                 \A k \in FsPaths :
                   fs[k] \in {NoFile, IF k[1] = "cursorPath" THEN "A" ELSE "B"}}

\* filepath.Rel(base, path) for a path below base
Rel(base, path) == SubSeq(path, Len(base) + 1, Len(path))

\* the files filepath.Walk(root/dir) visits
WalkFiles(fs, root, dir) ==
  {k[2] : k \in {x \in FsPaths : x[1] = root /\ HasPrefix(x[2], dir) /\ fs[x] # NoFile}}

\* copyFile(path, destPath) for every path of copied, destPath being
\* dstDir joined with the path relative to srcDir
copyWalk(fs, srcRoot, srcDir, dstRoot, dstDir, copied) ==
  [k \in FsPaths |->
     IF \E path \in copied : k = <<dstRoot, dstDir \o Rel(srcDir, path)>>
     THEN fs[<<srcRoot, CHOOSE path \in copied : k = <<dstRoot, dstDir \o Rel(srcDir, path)>>>>]
     ELSE fs[k]]

\* copyFromRepository and copyFromRepositoryForce: the walk starts at the
\* working copy's User directory and writes below ConfigPath/User; which
\* files shouldCopyFile lets through depends on sizes and hashes
copyFromRepositoryFromRoot(fs) ==
  {copyWalk(fs, "repoPath", <<>>, "cursorPath", <<>>, copied) :
     copied \in SUBSET WalkFiles(fs, "repoPath", <<>>)}
copyFromRepositoryOnFs(fs) ==
  IF WalkFiles(fs, "repoPath", UserDir) = {} THEN {fs}
  ELSE {copyWalk(fs, "repoPath", UserDir, "cursorPath", UserDir, copied) :
          copied \in SUBSET WalkFiles(fs, "repoPath", UserDir)}

\* syncDeletedFilesFromRemote: the walk starts at ConfigPath/User and removes
\* the walked path when the working copy has no file at the same relative path
syncDeletedFilesFromRemoteOnFs(fs) ==
  IF WalkFiles(fs, "repoPath", UserDir) = {} THEN {fs}
  ELSE {[k \in FsPaths |->
           IF /\ k[1] = "cursorPath"
              /\ k[2] \in WalkFiles(fs, "cursorPath", UserDir)
              /\ ~shouldExcludePath(UserDir \o Rel(UserDir, k[2]))
              /\ fs[<<"repoPath", UserDir \o Rel(UserDir, k[2])>>] = NoFile
           THEN NoFile ELSE fs[k]]}

\* copyToRepository: CleanupExcludedFiles walks the working copy, then the walk
\* starts at ConfigPath/User and writes below the working copy's User directory
copyToRepositoryOnFs(fs) ==
  LET cleaned == [k \in FsPaths |->
                    IF k[1] = "repoPath" /\ shouldExcludePath(k[2]) THEN NoFile ELSE fs[k]]
      walked == {path \in WalkFiles(fs, "cursorPath", UserDir) :
                   /\ ~HasSuffix(Rel(UserDir, path), <<".", "s", "o", "c", "k">>)
                   /\ ~shouldExcludePath(UserDir \o Rel(UserDir, path))}
  IN {copyWalk(cleaned, "cursorPath", UserDir, "repoPath", UserDir, copied) :
        copied \in SUBSET walked}

\* syncDeletedFiles: the walk starts at the working copy's User directory and
\* removes the walked path when ConfigPath/User has no file at the same
\* relative path
syncDeletedFilesOnFs(fs) ==
  {[k \in FsPaths |->
      IF /\ k[1] = "repoPath"
         /\ k[2] \in WalkFiles(fs, "repoPath", UserDir)
         /\ ~shouldExcludePath(UserDir \o Rel(UserDir, k[2]))
         /\ fs[<<"cursorPath", UserDir \o Rel(UserDir, k[2])>>] = NoFile
      THEN NoFile ELSE fs[k]]}

\* createCustomSyncMarker writes ConfigPath/.custom.sync
createCustomSyncMarkerOnFs(fs) ==
  {[fs EXCEPT ![<<"cursorPath", MarkerName>>] = "CC"]}

FrameModes == {"copyFromRepository", "syncDeletedFilesFromRemote", "copyToRepository",
               "syncDeletedFiles", "createCustomSyncMarker"}

FrameResults(fs, mode) ==
  IF mode = "copyFromRepository" THEN copyFromRepositoryOnFs(fs)
  ELSE IF mode = "syncDeletedFilesFromRemote" THEN syncDeletedFilesFromRemoteOnFs(fs)
  ELSE IF mode = "copyToRepository" THEN copyToRepositoryOnFs(fs)
  ELSE IF mode = "syncDeletedFiles" THEN syncDeletedFilesOnFs(fs)
  ELSE createCustomSyncMarkerOnFs(fs)

runFrame ==
  /\ ~copyCheck.asked
  /\ \E fs \in FrameDisks, mode \in FrameModes :
       \E after \in FrameResults(fs, mode) :
         copyCheck' = [asked |-> TRUE, mode |-> mode, before |-> fs, after |-> after]
  /\ UNCHANGED <<st, daemonVars, fsEvents, envVars, runVars, gateCheck, policyCheck,
                 resolveCheck, cloneCheck, hashPool, stamps>>

FrameNext == runFrame

FrameInit == InitFrom({FALSE}) /\ reliable

FrameSpec == FrameInit /\ [][FrameNext]_vars

----------------------------------------------------------------------------
(* The hash worker pool step by step: requesters put a path on the job      *)
(* channel and read the result channel, workers take a job, read the file   *)
(* and put the result on the result channel.                                *)

\* os.ReadFile and sha256 of the file at an absolute path of the user scope
HashResultOf(filePath) ==
  LET content == st.userFiles[filePath[2]] IN
  IF content = NoFile THEN [FilePath |-> filePath, Hash |-> NoHash, Error |-> TRUE]
  ELSE [FilePath |-> filePath, Hash |-> calculateSingleFileHash(content), Error |-> FALSE]

\* calculateFileHash up to the wait for the result: a cached hash is returned;
\* with a full job channel the hash is calculated synchronously and not
\* cached; otherwise the job is sent
requestHash(r, filePath) ==
  /\ hashPool.req[r].phase # "waiting"
  /\ hashPool' =
       IF hashPool.cache[filePath] # NoHash
       THEN [hashPool EXCEPT !.req[r] = [phase |-> "returned", path |-> filePath,
                                          hash |-> hashPool.cache[filePath], err |-> FALSE]]
       ELSE IF Len(hashPool.jobs) = HashChanCap
       THEN [hashPool EXCEPT !.req[r] = [phase |-> "returned", path |-> filePath,
                                          hash |-> HashResultOf(filePath).Hash,
                                          err |-> HashResultOf(filePath).Error]]
       ELSE [hashPool EXCEPT !.jobs = Append(@, filePath), !.sent = @ + 1,
                             !.req[r] = [phase |-> "waiting", path |-> filePath,
                                         hash |-> NoHash, err |-> FALSE]]
  /\ hashPool'.sent <= MaxHashJobs
  /\ UNCHANGED <<st, daemonVars, fsEvents, envVars, runVars, gateCheck, policyCheck,
                 resolveCheck, copyCheck, cloneCheck, stamps>>

\* the requester reads the next result of the result channel, caches its
\* hash under the path it asked for and returns it; an error is returned
receiveHashResult(r) ==
  /\ hashPool.req[r].phase = "waiting"
  /\ hashPool.results # <<>>
  /\ LET result == Head(hashPool.results)
         filePath == hashPool.req[r].path
     IN hashPool' =
          IF result.Error
          THEN [hashPool EXCEPT !.results = Tail(@),
                                !.req[r] = [phase |-> "returned", path |-> filePath,
                                            hash |-> NoHash, err |-> TRUE]]
          ELSE [hashPool EXCEPT !.results = Tail(@),
                                !.cache[filePath] = result.Hash,
                                !.req[r] = [phase |-> "returned", path |-> filePath,
                                            hash |-> result.Hash, err |-> FALSE]]
  /\ UNCHANGED <<st, daemonVars, fsEvents, envVars, runVars, gateCheck, policyCheck,
                 resolveCheck, copyCheck, cloneCheck, stamps>>

\* 30 seconds have passed without a result: the requester returns an error
hashTimeout(r) ==
  /\ hashPool.req[r].phase = "waiting"
  /\ hashPool.results = <<>>
  /\ hashPool' = [hashPool EXCEPT !.req[r] = [phase |-> "returned", path |-> @.path,
                                               hash |-> NoHash, err |-> TRUE]]
  /\ UNCHANGED <<st, daemonVars, fsEvents, envVars, runVars, gateCheck, policyCheck,
                 resolveCheck, copyCheck, cloneCheck, stamps>>

\* a worker takes a job from the job channel
hashWorkerTake(w) ==
  /\ hashPool.holding[w] = <<>>
  /\ hashPool.jobs # <<>>
  /\ hashPool' = [hashPool EXCEPT !.holding[w] = Head(hashPool.jobs), !.jobs = Tail(@)]
  /\ UNCHANGED <<st, daemonVars, fsEvents, envVars, runVars, gateCheck, policyCheck,
                 resolveCheck, copyCheck, cloneCheck, stamps>>

\* the worker has calculated the hash and sends the result
hashWorkerSend(w) ==
  /\ hashPool.holding[w] # <<>>
  /\ Len(hashPool.results) < HashChanCap
  /\ hashPool' = [hashPool EXCEPT !.holding[w] = <<>>,
                                  !.results = Append(@, HashResultOf(hashPool.holding[w]))]
  /\ UNCHANGED <<st, daemonVars, fsEvents, envVars, runVars, gateCheck, policyCheck,
                 resolveCheck, copyCheck, cloneCheck, stamps>>

HashNext ==
  \/ \E r \in Requesters, filePath \in HashPaths : requestHash(r, filePath)
  \/ \E r \in Requesters : receiveHashResult(r)
  \/ \E r \in Requesters : hashTimeout(r)
  \/ \E w \in Workers : hashWorkerTake(w)
  \/ \E w \in Workers : hashWorkerSend(w)

HashInit == InitFrom({FALSE}) /\ reliable

HashSpec == HashInit /\ [][HashNext]_vars

----------------------------------------------------------------------------
(* retryCloneWithBackoff step by step: the attempts, and the sleep between  *)
(* two attempts second by second.                                           *)

\* retryCloneWithBackoff is called: the loop starts with attempt 1
callRetryClone ==
  /\ cloneCheck.phase = "idle"
  /\ cloneCheck' = [cloneCheck EXCEPT !.phase = "clone", !.attempt = 1]
  /\ UNCHANGED <<st, daemonVars, fsEvents, envVars, runVars, gateCheck, policyCheck,
                 resolveCheck, copyCheck, hashPool, stamps>>

\* one pass of the loop up to the return or to the sleep
cloneAttempt ==
  /\ cloneCheck.phase = "clone"
  /\ \E answer \in CloneAnswers :
       cloneCheck' =
         IF answer = "cloned"
         THEN [cloneCheck EXCEPT !.phase = "done", !.result = "nil"]
         ELSE IF answer = "empty"
         THEN [cloneCheck EXCEPT !.phase = "done", !.result = "initializeEmptyRepository"]
         ELSE IF cloneCheck.attempt = maxRetries
         THEN [cloneCheck EXCEPT !.phase = "done", !.result = "error"]
         ELSE [cloneCheck EXCEPT !.phase = "sleep", !.waited = 0,
                                 !.delay = backoffDelay(cloneCheck.attempt)]
  /\ UNCHANGED <<st, daemonVars, fsEvents, envVars, runVars, gateCheck, policyCheck,
                 resolveCheck, copyCheck, hashPool, stamps>>

\* a second of time.Sleep(delay) passes
cloneSleep ==
  /\ cloneCheck.phase = "sleep"
  /\ cloneCheck.waited < cloneCheck.delay
  /\ cloneCheck' = [cloneCheck EXCEPT !.waited = @ + 1]
  /\ UNCHANGED <<st, daemonVars, fsEvents, envVars, runVars, gateCheck, policyCheck,
                 resolveCheck, copyCheck, hashPool, stamps>>

\* time.Sleep returns and the loop goes to the next attempt
cloneWake ==
  /\ cloneCheck.phase = "sleep"
  /\ cloneCheck.waited = cloneCheck.delay
  /\ cloneCheck' = [cloneCheck EXCEPT !.phase = "clone", !.attempt = @ + 1,
                                      !.slept = Append(@, cloneCheck.delay)]
  /\ UNCHANGED <<st, daemonVars, fsEvents, envVars, runVars, gateCheck, policyCheck,
                 resolveCheck, copyCheck, hashPool, stamps>>

RetryNext ==
  \/ callRetryClone
  \/ cloneAttempt
  \/ cloneSleep
  \/ cloneWake

RetryInit == InitFrom({FALSE})

RetrySpec == RetryInit /\ [][RetryNext]_vars

----------------------------------------------------------------------------
(* The walks of the mirror copier entry by entry, with the failures of the  *)
(* file system: an entry is a directory or a file that has to be copied,    *)
(* and creating or copying it fails or not.                                 *)

\* number of entries of a walk
MaxEntries == 3

WalkEntries == [dir : BOOLEAN, fails : BOOLEAN]

WalkLists == UNION {[1..n -> WalkEntries] : n \in 0..MaxEntries}

\* the callback of filepath.Walk in copyToRepository from entry i on: a
\* directory returns what os.MkdirAll returns, and an error returned by the
\* callback ends the walk; a file whose copy fails is logged
RECURSIVE copyToRepositoryFrom(_, _)
copyToRepositoryFrom(entries, i) ==
  IF i > Len(entries) THEN [err |-> FALSE, visited |-> Len(entries)]
  ELSE IF entries[i].dir /\ entries[i].fails THEN [err |-> TRUE, visited |-> i]
  ELSE copyToRepositoryFrom(entries, i + 1)

\* the callback of filepath.Walk in copyFromRepository and in
\* copyFromRepositoryForce from entry i on: every failure is logged
RECURSIVE copyFromRepositoryFrom(_, _)
copyFromRepositoryFrom(entries, i) ==
  IF i > Len(entries) THEN [err |-> FALSE, visited |-> Len(entries)]
  ELSE copyFromRepositoryFrom(entries, i + 1)

\* SyncToRemote and SyncFromRemote return the error of their copier
runWalk ==
  /\ ~copyCheck.asked
  /\ \E entries \in WalkLists, mode \in CopierModes :
       LET walked == IF mode = "copyToRepository" THEN copyToRepositoryFrom(entries, 1)
                     ELSE copyFromRepositoryFrom(entries, 1)
       IN copyCheck' = [asked |-> TRUE, mode |-> mode, entries |-> entries,
                        visited |-> walked.visited, syncFailed |-> walked.err]
  /\ UNCHANGED <<st, daemonVars, fsEvents, envVars, runVars, gateCheck, policyCheck,
                 resolveCheck, cloneCheck, hashPool, stamps>>

WalkNext == runWalk

WalkInit == InitFrom({FALSE})

WalkSpec == WalkInit /\ [][WalkNext]_vars

----------------------------------------------------------------------------
(* SyncToRemote on a host whose working copy may hold files that its        *)
(* exclude list now excludes: they were synced before the list was changed, *)
(* or cloned from a remote that another host filled.  The working copy is   *)
(* open and level with the remote.                                          *)

PurgeDisk(user, repo) ==
  [CopierDisk(user, repo) EXCEPT !.remoteFiles = repo, !.remoteEmpty = FALSE]

PurgeInit ==
  /\ st \in {PurgeDisk(user, repo) : user \in CopierTrees, repo \in CopierTrees}
  /\ pc = [g \in Goroutines |-> IF g = "main" THEN "ready" ELSE "off"]
  /\ syncInProgress = FALSE
  /\ sinceLastSync = MinSyncTicks
  /\ paused = FALSE
  /\ disabled = FALSE
  /\ watching = FALSE
  /\ fsEvents = <<>>
  /\ lastChangeMap = {}
  /\ changes = 0
  /\ pendingChanges = FALSE
  /\ timer = "stopped"
  /\ envOps = 0
  /\ envLast = NoChange
  /\ reliable \in BOOLEAN
  /\ disk0 = st
  /\ gateCheck = NoCheck
  /\ policyCheck = NoClassification
  /\ resolveCheck = NoResolve
  /\ copyCheck = NoCopy
  /\ cloneCheck = NoClone
  /\ hashPool = NoPool
  /\ stamps = <<"lastSync">>

PurgeNext ==
  \/ UserWrite
  \/ UserDelete
  \/ callSyncToRemote

PurgeSpec == PurgeInit /\ [][PurgeNext]_vars

----------------------------------------------------------------------------
(* A host in steady operation whose only syncs are periodic ones, each run  *)
(* as a whole; the pushes of the other host are the environment's           *)
(* RemotePush.                                                              *)

\* performPeriodicSync: SyncFromRemote, then SyncToRemote whatever the first
\* returned.  The record keeps what the two operations did, whether both
\* returned nil with the pull done and nothing left to push, and whether the
\* sync before this one had done so with no change of the user scope or of
\* the remote since
periodicSync ==
  /\ pc["main"] = "ready"
  /\ \E in1 \in SyncInputsOfRun, in2 \in SyncInputsOfRun :
       LET pulled == SyncFromRemote(st, in1)
           pushed == SyncToRemote(pulled, in2)
       IN /\ st' = pushed
          /\ copyCheck' =
               [asked |-> TRUE,
                quiet |-> copyCheck.asked /\ copyCheck.succeeded
                            /\ st.last.op = "SyncToRemote",
                succeeded |-> /\ ~pulled.last.err /\ pulled.last.pullOK
                              /\ ~pushed.last.err /\ ~pushed.headAhead,
                did |-> pulled.did \cup pushed.did]
  /\ UNCHANGED <<daemonVars, fsEvents, envVars, runVars, gateCheck, policyCheck,
                 resolveCheck, cloneCheck, hashPool, stamps>>

QuiesceNext ==
  \/ UserWrite
  \/ UserDelete
  \/ RemotePush
  \/ periodicSync

\* the host has at most the file PA, in the user scope and in the working
\* copy, and the network and the hosting provider do not fail
QuiesceInit ==
  /\ PurgeInit
  /\ reliable
  /\ \A p \in Paths \ {PA} : st.userFiles[p] = NoFile /\ st.repoFiles[p] = NoFile

QuiesceSpec == QuiesceInit /\ [][QuiesceNext]_vars


----------------------------------------------------------------------------
(* The privacy gate on its own: one check per request.                      *)

checkPrivacy ==
  /\ \E req \in GateRequests :
       gateCheck' = [req |-> req, verdict |-> CheckRepositoryPrivacy(req)]
  /\ UNCHANGED <<st, daemonVars, fsEvents, envVars, runVars, policyCheck, resolveCheck, copyCheck,
                 cloneCheck, hashPool, stamps>>

GateNext == checkPrivacy

GateInit == InitFrom({FALSE})

GateSpec == GateInit /\ [][GateNext]_vars

----------------------------------------------------------------------------
(* The path policy on its own: one classification per question.             *)

classifyPath ==
  /\ \E path \in PolicyPaths, excludePaths \in ExcludeLists :
       policyCheck' = [asked |-> TRUE, path |-> path, excludePaths |-> excludePaths,
                       excluded |-> shouldExcludePathOf(excludePaths, path)]
  /\ UNCHANGED <<st, daemonVars, fsEvents, envVars, runVars, gateCheck, resolveCheck, copyCheck,
                 cloneCheck, hashPool, stamps>>

PolicyNext == classifyPath

PolicyInit == InitFrom({FALSE})

PolicySpec == PolicyInit /\ [][PolicyNext]_vars

----------------------------------------------------------------------------
(* Properties *)

\* goroutine g is between its startSync and its endSync
InSync(g) == pc[g] \in {"disable", "pull", "push", "enable", "end"}

\* C1: no two syncs of one daemon process overlap; stated for the periodic
\* loop and the realtime handler: they are never both between startSync and
\* endSync
C1_PeriodicAndRealtimeNeverOverlap == ~(InSync("loop") /\ InSync("handler"))

\* C2: an operation whose privacy check concludes public or indeterminate
\* returns an error and has cloned, pulled, committed, pushed and written
\* nothing: the disks, the git state, the remote and the marker are as before
C2_BlockedDoesNothing ==
  [][st'.last.gate \in {"public", "indeterminate"}
       => /\ st'.last.err
          /\ st'.did = {}
          /\ Forget(st') = Forget(st)]_vars

\* a blocked SyncToRemote that had a changed file to mirror and an unpushed
\* commit to push
C2_BlockedWithWorkPending ==
  /\ st.last.op = "SyncToRemote"
  /\ st.last.gate = "public"
  /\ st.last.err
  /\ st.repoOpen
  /\ \E p \in InScope : st.userFiles[p] # st.repoFiles[p]

\* C3: every step in which the syncer writes or deletes a file of the user
\* scope (the force copy of Initialize, the copy and the deletion of
\* SyncFromRemote) starts and ends with the watcher's disabled flag set
C3_DisabledWhileSyncerWrites ==
  [][(envOps' = envOps /\ st'.userFiles # st.userFiles)
       => (disabled /\ disabled')]_vars

\* C4: after a SyncToRemote that returns success the in-scope files of the
\* working copy are those of the user scope, with the same content
C4_MirrorEqualsUserScope ==
  (reliable /\ st.last.op = "SyncToRemote" /\ ~st.last.err)
    => \A p \in InScope \ Sockets : st.repoFiles[p] = st.userFiles[p]

\* the user has written the in-scope file envLast.path while the daemon was
\* started, watching, unpaused and served by a network that never fails
UserWroteFile ==
  /\ reliable /\ ~paused
  /\ envLast.who = "user" /\ envLast.main = "wait" /\ envLast.watched
  /\ envLast.path \in InScope
  /\ envLast.content # NoFile

\* C5: a file the user has created or modified stays in the user scope with
\* the content the user wrote (and is committed to the remote with it)
C5_WrittenFileStays ==
  UserWroteFile => st.userFiles[envLast.path] = envLast.content

\* the user has deleted the in-scope file envLast.path, which the remote
\* had, while the daemon was started, watching, unpaused and served by a
\* network that never fails
UserDeletedFile ==
  /\ reliable /\ ~paused
  /\ envLast.who = "user" /\ envLast.main = "wait" /\ envLast.watched
  /\ envLast.path \in InScope
  /\ envLast.content = NoFile
  /\ envLast.onRemote

\* C6: a file the user has deleted is not recreated in the user scope by
\* the syncs of the daemon
C6_DeletedFileStaysDeleted ==
  UserDeletedFile => st.userFiles[envLast.path] = NoFile

\* C7: after another host has added or modified a file on the remote, a
\* SyncFromRemote whose pull succeeded leaves every file of the working copy
\* in the user scope with the same content
C7_UserScopeHasMirror ==
  (/\ reliable
   /\ envLast.who = "remote" /\ envLast.content # NoFile /\ envLast.main # "init"
   /\ st.last.op = "SyncFromRemote" /\ ~st.last.err /\ st.last.pullOK)
    => \A p \in Paths : st.repoFiles[p] # NoFile => st.userFiles[p] = st.repoFiles[p]

\* C8: after another host has deleted the in-scope file envLast.path on the
\* remote while this process was initialised, a SyncFromRemote whose pull
\* succeeded leaves the user scope without that file
C8_RemoteDeletionReachesUserScope ==
  (/\ reliable
   /\ envLast.who = "remote" /\ envLast.content = NoFile /\ envLast.onRemote
   /\ envLast.main # "init"
   /\ envLast.path \in InScope
   /\ st.last.op = "SyncFromRemote" /\ ~st.last.err /\ st.last.pullOK)
    => st.userFiles[envLast.path] = NoFile

\* the process started without marker against a remote that has commits,
\* and nothing but the daemon has acted since
FreshHost == ~disk0.marker /\ ~disk0.remoteEmpty /\ envOps = 0 /\ reliable

\* Start is between its call of Initialize and the return of the initial sync
InStartup == pc["main"] \in {"init", "initial", "disable", "pull", "push", "enable", "end"}

\* C9: when the startup of a fresh host completes, every in-scope local file
\* the remote does not have is there with its original content, every file
\* of the remote is in the user scope with the remote's content, and the
\* marker is present
C9_StartupKeepsLocalOnlyFiles ==
  [][(FreshHost /\ pc["main"] = "end" /\ pc'["main"] = "wait")
       => /\ \A p \in InScope :
               (disk0.userFiles[p] # NoFile /\ st'.remoteFiles[p] = NoFile)
                 => st'.userFiles[p] = disk0.userFiles[p]
          /\ \A p \in Paths :
               st'.remoteFiles[p] # NoFile => st'.userFiles[p] = st'.remoteFiles[p]
          /\ st'.marker]_vars

\* C10: the startup of a fresh host commits nothing and leaves every file of
\* the remote as it is
C10_StartupLeavesRemoteAlone ==
  [][(FreshHost /\ InStartup /\ envOps' = envOps)
       => (st'.remoteFiles = st.remoteFiles /\ st'.did \cap {"commit", "pushed"} = {})]_vars

\* C11: when the debounce timer of a burst of watcher events expires with
\* the change pending and the daemon unpaused, a realtime sync is started,
\* whenever the previous sync ran
C11_DebounceFireStartsRealtimeSync ==
  [][(timer = "fired" /\ timer' = "stopped" /\ pendingChanges /\ ~paused)
       => pc'["handler"] = "start"]_vars

\* C12: a pending change is never left without something that will start
\* its realtime sync: the debounce timer is armed or has fired, an event is
\* still on its way to the handler, or the handler is starting or running
\* the sync
C12_PendingChangeKeepsItsTrigger ==
  (pendingChanges /\ ~paused)
    => \/ timer # "stopped"
       \/ pc["handler"] # "select"
       \/ changes > 0
       \/ fsEvents # <<>>

\* C13: the completion of a sync opens the 30 s window: right after an
\* endSync an attempt to start a sync is rejected
C13_StartRejectedRightAfterCompletion ==
  [][(\E g \in Goroutines : pc[g] = "end" /\ pc'[g] # "end") => ~canStartSync']_vars

\* C14: while the pause sentinel is present no step of the daemon runs an
\* operation of the syncer: none makes a privacy check, clones, pulls,
\* copies, deletes, commits or pushes
C14_PausedRunsNoOperation ==
  [][(paused /\ st'.last # st.last) => (st'.last.op = "none" /\ st'.did = {})]_vars

\* C15: the privacy gate concludes private exactly when the metadata
\* response is 200 with private = true, or 404 to a request that carried the
\* token
C15_PrivateExactlyWhen ==
  gateCheck # NoCheck =>
    LET req == gateCheck.req IN
    (gateCheck.verdict = "private")
      <=> /\ req.github /\ req.answered
          /\ \/ req.status = 200 /\ req.body = "private"
             \/ req.status = 404 /\ req.token

\* C16: a realtime sync whose privacy check concludes public or
\* indeterminate leaves the time of the last sync, which the 30 s rate limit
\* uses, as it was when the sync was admitted: the window is not open when
\* the blocked SyncToRemote returns
C16_BlockedSyncLeavesWindowClosed ==
  [][(/\ pc["handler"] = "push" /\ pc'["handler"] = "enable"
      /\ ~InSync("main") /\ ~InSync("loop")
      /\ st'.last.gate \in {"public", "indeterminate"})
       => sinceLastSync' = MinSyncTicks]_vars

\* C17: whatever fails during startup, Start does not return and the process
\* does not exit: the handler and the periodic loop get launched
C17_StartupFailureDoesNotExit ==
  [][(pc["main"] = "init" /\ pc'["main"] # "init")
       => (pc'["main"] # "exit" /\ pc'["handler"] # "off")]_vars

\* host A has pushed an edit of envLast.path that this host has not pulled,
\* and this host's copy of the file in the user scope is a different edit
DivergentEdits ==
  /\ reliable
  /\ envLast.who = "remote" /\ envLast.content # NoFile
  /\ st.headBehind
  /\ st.userFiles[envLast.path] \notin {NoFile, st.repoFiles[envLast.path], envLast.content}

\* C18: a SyncToRemote that commits this host's divergent edit under the
\* `newer` policy ends with a successful push, no commit left unpushed, and
\* the remote holding the newer of the two edits
C18_DivergentPushEndsPushed ==
  [][(DivergentEdits /\ envOps' = envOps
      /\ st'.last.op = "SyncToRemote" /\ "commit" \in st'.did)
       => /\ st'.last.pushOK
          /\ ~st'.headAhead
          /\ st'.remoteFiles[envLast.path] =
               IF st'.headNewer THEN st.userFiles[envLast.path] ELSE envLast.content]_vars

\* C19: a SyncToRemote that passes the privacy check while a commit of an
\* earlier SyncToRemote is unpushed and the remote would accept it pushes
\* that commit, or at least tries to (the push can only fail on the network)
C19_UnpushedCommitIsPushedNext ==
  [][(/\ st.repoOpen /\ st.headAhead /\ ~st.headBehind
      /\ envOps' = envOps
      /\ st' # st
      /\ st'.last.op = "SyncToRemote" /\ st'.last.gate = "private")
       => (st'.last.pushOK \/ "push" \in st'.did)]_vars

\* the step is a SyncToRemote whose push, or a SyncFromRemote whose pull,
\* failed although the branches had not diverged: it failed on the network
NetworkFailure ==
  /\ envOps' = envOps
  /\ st' # st
  /\ st'.last.gate = "private"
  /\ \/ /\ st'.last.op = "SyncToRemote"
        /\ "push" \in st'.did /\ ~st'.last.pushOK
        /\ ~st.headBehind
     \/ /\ st'.last.op = "SyncFromRemote"
        /\ "pull" \in st'.did /\ ~st'.last.pullOK
        /\ ~(st.headAhead /\ st.headBehind)

\* C20: an operation whose push or pull fails on the network returns an
\* error and leaves the marker, the commits of the working copy and the
\* files of the user scope as they were
C20_NetworkFailureChangesNothing ==
  [][NetworkFailure
       => /\ st'.last.err
          /\ st'.marker = st.marker
          /\ st'.headFiles = st.headFiles /\ st'.headAhead = st.headAhead
          /\ st'.userFiles = st.userFiles]_vars

\* C21: the process never exits while a sync is executing: no goroutine is
\* killed between its startSync and its endSync
C21_ShutdownWaitsForSync ==
  \A g \in Goroutines : pc[g] # "killed"

\* C22: neither the daemon's lastSyncTime nor the syncer's lastSync ever goes
\* back: the time since lastSyncTime grows only as the clock advances, and a
\* goroutine that stores a clock reading in lastSync stores one that is not
\* older than the value lastSync has
C22_LastSyncNeverDecreases ==
  [][/\ sinceLastSync' > sinceLastSync => (Tick \/ Shutdown)
     /\ \A g \in Goroutines :
          storeLastSync(g) => PosOf(stamps, "lastSync") < PosOf(stamps, g)]_vars

\* C23: a path that ends with the marker's name is classified as excluded,
\* whatever the exclude list is
C23_MarkerIsExcluded ==
  policyCheck.asked =>
    (HasSuffix(policyCheck.path, MarkerName) => policyCheck.excluded)

\* the marker below User/ was classified under an empty exclude list
C23_MarkerClassifiedWithoutPatterns ==
  /\ policyCheck.asked
  /\ policyCheck.path = UserDir \o MarkerName
  /\ policyCheck.excludePaths = <<>>
  /\ policyCheck.excluded

C25_CachedHashIsCurrent ==
  \A p \in Paths :
    /\ (st.userFiles[p] # NoFile /\ st.hashCache[UserPath(p)] # NoHash)
         => st.hashCache[UserPath(p)] = calculateSingleFileHash(st.userFiles[p])
    /\ (st.repoFiles[p] # NoFile /\ st.hashCache[RepoPath(p)] # NoHash)
         => st.hashCache[RepoPath(p)] = calculateSingleFileHash(st.repoFiles[p])

\* C26: with strategy newer, ResolveConflicts does what the remote strategy
\* does when the time of the local HEAD commit cannot be read, and what the
\* local strategy does when the time of the remote's head cannot be read
C26_NewerFallsBackToOtherStrategy ==
  [][(resolveCheck' # resolveCheck /\ ConflictResolve = "newer") =>
       /\ ~resolveCheck'.localTime
            => resolveCheck'.res = resolveWithRemote(st, resolveCheck'.net)
       /\ (resolveCheck'.localTime /\ ~resolveCheck'.api)
            => resolveCheck'.res = resolveWithLocal(st)]_vars

\* a step of the realtime sync: the handler goroutine moves on between its
\* startSync and its endSync, or stores its clock reading
RealtimeSyncStep ==
  /\ pc["handler"] \in {"disable", "push", "enable", "end"}
  /\ pc'["handler"] # pc["handler"] \/ storeLastSync("handler")

C28_EventOfDisabledPeriodIsDropped ==
  [][(processEvents /\ Head(fsEvents).whileDisabled) => changes' = changes]_vars

\* C29: after a run of the copier every excluded file of the destination is
\* as it was before or gone: the copier has written no excluded file, from
\* the user scope to the working copy or back, comparing or forcing
C29_CopierWritesNoExcludedFile ==
  copyCheck.asked =>
    \A p \in Excluded :
      /\ copyCheck.repoAfter[p] \in {copyCheck.repoBefore[p], NoFile}
      /\ copyCheck.userAfter[p] \in {copyCheck.userBefore[p], NoFile}

\* C30: a SyncFromRemote whose pull did not succeed, at the first attempt or
\* at the retry, removes no file from the user scope
C30_NoDeletionWithoutPull ==
  [][(callSyncFromRemote /\ ~st'.last.pullOK) =>
       \A p \in Paths : st.userFiles[p] # NoFile => st'.userFiles[p] # NoFile]_vars

\* a SyncFromRemote has passed the gate, its pull has failed, and the user
\* scope still holds an in-scope file that the working copy lacks
C30_FailedPullKeptLocalOnlyFile ==
  /\ st.last.op = "SyncFromRemote" /\ ~st.last.err /\ ~st.last.pullOK
  /\ "pull" \in st.did
  /\ st.repoUserDir
  /\ \E p \in InScope : st.userFiles[p] # NoFile /\ st.repoFiles[p] = NoFile

\* C31: a run of deletion propagation, in either direction, leaves every
\* excluded file where it was, in the user scope and in the working copy,
\* and leaves the marker
C31_DeletionSparesExcludedAndMarker ==
  copyCheck.asked =>
    /\ \A p \in Excluded : /\ copyCheck.userAfter[p] = copyCheck.userBefore[p]
                            /\ copyCheck.repoAfter[p] = copyCheck.repoBefore[p]
    /\ copyCheck.markerBefore => copyCheck.markerAfter

\* the mirror-to-local walk has removed an in-scope file and has met an
\* excluded file that the working copy lacks
C31_DeletedBesideExcludedFile ==
  /\ copyCheck.asked
  /\ copyCheck.mode = "syncDeletedFilesFromRemote"
  /\ \E p \in InScope : copyCheck.userBefore[p] # NoFile /\ copyCheck.userAfter[p] = NoFile
  /\ \E p \in Excluded : copyCheck.userAfter[p] # NoFile /\ copyCheck.repoBefore[p] = NoFile

\* C32: a periodic sync that has begun runs SyncFromRemote, then SyncToRemote
\* whatever SyncFromRemote returned, once each, and syncInProgress is true
\* from its startSync to its endSync
C32_PeriodicSyncPullsThenPushes ==
  [][/\ (pc["loop"] = "pull" /\ pc'["loop"] # "pull")
          => (pc'["loop"] = "push" /\ st'.last.op = "SyncFromRemote")
     /\ (pc["loop"] = "push" /\ pc'["loop"] # "push")
          => (pc'["loop"] = "enable" /\ st'.last.op = "SyncToRemote")
     /\ (pc["loop"] = "enable" /\ pc'["loop"] # "enable") => pc'["loop"] = "end"
     /\ InSync("loop")' => syncInProgress']_vars

\* C33: whatever entries fail, the walk of the copier visits every entry and
\* the sync that runs the copier does not fail
C33_WalkSurvivesEntryFailures ==
  copyCheck.asked =>
    (copyCheck.visited = Len(copyCheck.entries) /\ ~copyCheck.syncFailed)

backoffDelayDoubling(attempt) ==
  IF baseDelay * 2 ^ (attempt - 1) > maxDelay THEN maxDelay
  ELSE baseDelay * 2 ^ (attempt - 1)

\* C36: retryCloneWithBackoff makes at most 5 attempts and returns an error
\* after the fifth has failed, and the wait after attempt k is the base delay
\* doubled k-1 times and capped: 2 s, 4 s, 8 s, 10 s
C36_DelayDoublesUpToCap ==
  /\ cloneCheck.attempt <= 5
  /\ (cloneCheck.result = "error" => cloneCheck.attempt = 5)
  /\ (cloneCheck.phase = "sleep" =>
        cloneCheck.delay = backoffDelayDoubling(cloneCheck.attempt))
  /\ \A k \in 1..Len(cloneCheck.slept) : cloneCheck.slept[k] = <<2, 4, 8, 10>>[k]

\* C39: a hash that a request for a path returns, and the hash cached under
\* a path, is the digest of the file at that path
C39_HashBelongsToPath ==
  /\ \A r \in Requesters :
       (hashPool.req[r].phase = "returned" /\ ~hashPool.req[r].err) =>
         hashPool.req[r].hash = HashResultOf(hashPool.req[r].path).Hash
  /\ \A k \in HashPaths :
       hashPool.cache[k] # NoHash => hashPool.cache[k] = HashResultOf(k).Hash

\* C37: a walk of the syncer or the writing of the marker leaves every file
\* of the IDE-config root that is neither in the user scope nor the marker
\* as it was
C37_OutsideUserScopeUntouched ==
  copyCheck.asked =>
    \A path \in FramePaths :
      (~HasPrefix(path, UserDir) /\ path # MarkerName) =>
        copyCheck.after[<<"cursorPath", path>>] = copyCheck.before[<<"cursorPath", path>>]

\* the working copy and the IDE-config root both hold a file of the same
\* name beside their User directories; copyFromRepository has overwritten a
\* file of the user scope
C37_CopiedBesideOutsideFile ==
  /\ copyCheck.asked /\ copyCheck.mode = "copyFromRepository"
  /\ copyCheck.before[<<"repoPath", PA>>] = "B"
  /\ copyCheck.before[<<"cursorPath", PA>>] = "A"
  /\ copyCheck.before[<<"cursorPath", UserDir \o PA>>] = "A"
  /\ copyCheck.after[<<"cursorPath", UserDir \o PA>>] = "B"

\* C38: a periodic sync that follows a successful periodic sync, with no edit
\* of the user scope and no push of the other host in between, makes no
\* commit and copies and deletes no file
C38_QuietAfterSuccessfulSync ==
  (copyCheck.asked /\ copyCheck.quiet) =>
    copyCheck.did \cap {"commit", "write_repo", "write_user"} = {}

====
